---- MODULE Spec2Model ----
(***************************************************************************)
(* Model of notebooks/lib/youtube_loader.py: the transcript directory, the *)
(* curated index file, and the six public operations that read and write   *)
(* them (load_local_transcript, save_local_transcript,                     *)
(* fetch_youtube_transcript, get_or_create_transcript,                     *)
(* preload_curated_transcripts, load_curated_index).                       *)
(*                                                                         *)
(* A Python str is a sequence of tokens: one token per character, except   *)
(* that a scheme, a host-name part and an identifier are one token each    *)
(* ("https", "youtu.be", "abc"); substring tests and splits act on tokens. *)
(* Optional[str] is a record [some, text]; None is the record with         *)
(* some = FALSE.                                                           *)
(***************************************************************************)
EXTENDS Integers, Sequences, FiniteSets, TLC

CR == "\r"
LF == "\n"
SP == " "

None == [some |-> FALSE, text |-> <<>>]
Some(t) == [some |-> TRUE, text |-> t]

\* Python truthiness of an Optional[str]: None and "" are falsy.
Truthy(o) == o.some /\ o.text # <<>>

-----------------------------------------------------------------------------
(* str helpers *)

Whitespace == {SP, CR, LF, "\t"}

Contains(s, tok) == \E i \in 1..Len(s) : s[i] = tok

\* Index of the first token of s that is in set, or Len(s) + 1.
RECURSIVE FirstIn(_, _, _)
FirstIn(s, set, i) ==
    IF i > Len(s) THEN Len(s) + 1
    ELSE IF s[i] \in set THEN i
    ELSE FirstIn(s, set, i + 1)

RECURSIVE LStrip(_, _)
LStrip(s, set) ==
    IF s # <<>> /\ Head(s) \in set THEN LStrip(Tail(s), set) ELSE s

RECURSIVE RStrip(_, _)
RStrip(s, set) ==
    IF s # <<>> /\ s[Len(s)] \in set THEN RStrip(SubSeq(s, 1, Len(s) - 1), set) ELSE s

\* str.strip(): both ends, whitespace by default.
Strip(s, set) == RStrip(LStrip(s, set), set)

\* str.split(sep): the pieces between the occurrences of sep (always >= 1 piece).
RECURSIVE Split(_, _)
Split(s, sep) ==
    LET i == FirstIn(s, {sep}, 1) IN
    IF i > Len(s) THEN <<s>>
    ELSE <<SubSeq(s, 1, i - 1)>> \o Split(SubSeq(s, i + 1, Len(s)), sep)

\* sep.join(parts)
RECURSIVE Join(_, _)
Join(parts, sep) ==
    IF parts = <<>> THEN <<>>
    ELSE IF Len(parts) = 1 THEN parts[1]
    ELSE parts[1] \o sep \o Join(Tail(parts), sep)

-----------------------------------------------------------------------------
(* urllib.parse, as far as extract_video_id uses it *)

Schemes == {"https", "http"}

\* urlparse(url): scheme ":" then "//" netloc, then path, "?" query, "#" fragment.
urlparse(url) ==
    LET hasScheme == Len(url) >= 2 /\ url[1] \in Schemes /\ url[2] = ":"
        r1 == IF hasScheme THEN SubSeq(url, 3, Len(url)) ELSE url
        hasNet == r1 # <<>> /\ Head(r1) = "//"
        r2 == IF hasNet THEN Tail(r1) ELSE r1
        n == FirstIn(r2, {"/", "?", "#"}, 1)
        r3 == IF hasNet THEN SubSeq(r2, n, Len(r2)) ELSE r2
        f == FirstIn(r3, {"#"}, 1)
        r4 == SubSeq(r3, 1, f - 1)
        q == FirstIn(r4, {"?"}, 1)
    IN  [netloc |-> IF hasNet THEN SubSeq(r2, 1, n - 1) ELSE <<>>,
         path |-> SubSeq(r4, 1, q - 1),
         query |-> SubSeq(r4, q + 1, Len(r4))]

\* parse_qs(query)[name], as the list of the non-blank values given for name
\* (keep_blank_values is False: a pair without a value is dropped).
RECURSIVE QsValues(_, _)
QsValues(pairs, name) ==
    IF pairs = <<>> THEN <<>>
    ELSE LET p == Head(pairs)
             e == FirstIn(p, {"="}, 1)
             k == SubSeq(p, 1, e - 1)
             val == SubSeq(p, e + 1, Len(p))
         IN  (IF e <= Len(p) /\ k = name /\ val # <<>> THEN <<val>> ELSE <<>>)
             \o QsValues(Tail(pairs), name)

parse_qs(query, name) == QsValues(Split(query, "&"), name)

ExtractVideoId(video_url_or_id) ==
    IF ~Contains(video_url_or_id, "youtube.com") /\ ~Contains(video_url_or_id, "youtu.be")
    THEN Strip(video_url_or_id, Whitespace)
    ELSE LET parsed == urlparse(video_url_or_id)
             v == parse_qs(parsed.query, <<"v">>)
             segs == Split(Strip(parsed.path, {"/"}), "/")
         IN  IF Contains(parsed.netloc, "youtube.com") /\ v # <<>> THEN v[1]
             ELSE IF Contains(parsed.netloc, "youtu.be") THEN LStrip(parsed.path, {"/"})
             ELSE segs[Len(segs)]

\* The video references get_or_create_transcript is called with directly.
Refs ==
    { <<SP, "abc", LF>>,
      <<"https", ":", "//", "www.", "youtube.com", "/", "watch", "?", "t", "=", "1", "&", "v", "=", "xyz">>,
      <<"https", ":", "//", "www.", "youtube.com", "/", "embed", "/", "xyz", "/">> }

\* The urls of the catalogs: a bare identifier, a short link and a standard url.
BareRef == <<"abc">>
ShortRef == <<"https", ":", "//", "youtu.be", "/", "abc">>
WatchRef == <<"https", ":", "//", "www.", "youtube.com", "/", "watch", "?", "v", "=", "xyz">>

\* extract_video_id on the references used here, computed once.
VideoIds == [r \in Refs \cup {BareRef, ShortRef, WatchRef} |-> ExtractVideoId(r)]

extract_video_id(video_url_or_id) == VideoIds[video_url_or_id]

Ids == { extract_video_id(r) : r \in Refs }

-----------------------------------------------------------------------------
(* Files.  A file is [exists, text, canRead]: text is the stored content,   *)
(* canRead is FALSE when read_text raises on it (bytes that are not UTF-8). *)

NoFile == [exists |-> FALSE, text |-> <<>>, canRead |-> FALSE]
File(t, r) == [exists |-> TRUE, text |-> t, canRead |-> r]

\* A file whose content does not decode.
Undecodable == File(<<"\\xff">>, FALSE)

\* os.linesep of the platform the program runs on (POSIX).
linesep == <<LF>>

\* The concatenation of pieces[lo..hi].
RECURSIVE Concat(_, _, _)
Concat(pieces, lo, hi) ==
    IF lo > hi THEN <<>>
    ELSE IF lo = hi THEN pieces[lo]
    ELSE LET mid == (lo + hi) \div 2
         IN  Concat(pieces, lo, mid) \o Concat(pieces, mid + 1, hi)

\* What open(mode="w", newline=None) stores for text: each "\n" becomes os.linesep.
EncodeText(t) ==
    Concat([i \in 1..Len(t) |-> IF t[i] = LF THEN linesep ELSE <<t[i]>>], 1, Len(t))

\* What open(mode="r", newline=None) yields for stored content: "\r\n" and a lone
\* "\r" both read back as "\n" (universal newlines).
DecodeText(b) ==
    Concat([i \in 1..Len(b) |->
               IF b[i] = CR THEN <<LF>>
               ELSE IF b[i] = LF /\ i > 1 /\ b[i - 1] = CR THEN <<>>
               ELSE <<b[i]>>], 1, Len(b))

\* How a write_text call can end: it writes everything; opening the file fails and
\* the file is left as it was; or the file is opened (created, truncated) and the
\* write itself fails.
WriteOutcomes == {"ok", "denied", "truncated"}

\* Path.write_text(text) on file f, ending as wout says.
write_text(f, t, wout) ==
    CASE wout = "ok" -> File(EncodeText(t), TRUE)
      [] wout = "truncated" -> File(<<>>, TRUE)
      [] OTHER -> f

\* str(TRANSCRIPTS_DIR / f"{video_id}.txt")
TranscriptPath(video_id) == <<"data/transcripts/">> \o video_id \o <<".txt">>

load_local_transcript(fs, video_id) ==
    IF ~fs[video_id].exists THEN None
    ELSE IF fs[video_id].canRead THEN Some(DecodeText(fs[video_id].text))
    ELSE None

\* The transcript directory after save_local_transcript(video_id, text); the call
\* returns the path whether or not the write succeeded.
save_local_transcript(fs, video_id, t, wout) ==
    [fs EXCEPT ![video_id] = write_text(fs[video_id], t, wout)]

-----------------------------------------------------------------------------
(* The remote service.  A response is what YouTubeTranscriptApi.get_transcript *)
(* does for one call: it raises, or it returns a list of segments; a segment   *)
(* is the value of its "text" key, None when the key is missing.               *)

Raises(e) == [kind |-> "raise", exc |-> e, segments |-> <<>>]
Segments(ss) == [kind |-> "segments", exc |-> "", segments |-> ss]

Responses ==
    { Raises("NoTranscriptFound"),
      Raises("ConnectionError"),
      Segments(<< Some(<<SP>>), None >>),
      Segments(<< Some(<<"a", SP>>), None, Some(<<LF>>), Some(<<SP, "b">>) >>),
      Segments(<< Some(<<"a", CR, "b">>) >>) }

\* [s.get("text", "").strip() for s in segments if s.get("text", "").strip()]
RECURSIVE SegmentTexts(_)
SegmentTexts(segs) ==
    IF segs = <<>> THEN <<>>
    ELSE LET t == Strip(IF Head(segs).some THEN Head(segs).text ELSE <<>>, Whitespace)
         IN  (IF t # <<>> THEN <<t>> ELSE <<>>) \o SegmentTexts(Tail(segs))

fetch_youtube_transcript(available, resp) ==
    IF ~available THEN None
    ELSE IF resp.kind = "raise" THEN None
    ELSE LET t == Join(SegmentTexts(resp.segments), <<LF>>)
         IN  IF t # <<>> THEN Some(t) ELSE None

-----------------------------------------------------------------------------
(* The resolver *)

Meta(id, src, saved) == [video_id |-> id, source |-> src, saved_locally |-> saved]

\* Mutant: the remote service is asked first, the local file only as a fallback.
get_or_create_transcript_RemoteFirst(fs, available, ref, use_youtube_fallback, save_downloaded, resp, wout) ==
    LET video_id == extract_video_id(ref)
        local == load_local_transcript(fs, video_id)
        yt == fetch_youtube_transcript(available, resp)
    IN  IF use_youtube_fallback /\ Truthy(yt)
        THEN [ret |-> yt,
              meta |-> Meta(video_id, "youtube", save_downloaded),
              files |-> IF save_downloaded THEN save_local_transcript(fs, video_id, yt.text, wout)
                        ELSE fs,
              fetched |-> 1, yt |-> yt]
        ELSE IF Truthy(local)
        THEN [ret |-> local, meta |-> Meta(video_id, "local", FALSE), files |-> fs,
              fetched |-> IF use_youtube_fallback THEN 1 ELSE 0, yt |-> None]
        ELSE [ret |-> None, meta |-> Meta(video_id, "none", FALSE), files |-> fs,
              fetched |-> IF use_youtube_fallback THEN 1 ELSE 0,
              yt |-> IF use_youtube_fallback THEN yt ELSE None]

\* Mutant: use_youtube_fallback is not consulted.
get_or_create_transcript_IgnoresFlag(fs, available, ref, use_youtube_fallback, save_downloaded, resp, wout) ==
    LET video_id == extract_video_id(ref)
        local == load_local_transcript(fs, video_id)
        yt == fetch_youtube_transcript(available, resp)
    IN  IF Truthy(local)
        THEN [ret |-> local, meta |-> Meta(video_id, "local", FALSE), files |-> fs,
              fetched |-> 0, yt |-> None]
        ELSE IF Truthy(yt)
        THEN [ret |-> yt,
              meta |-> Meta(video_id, "youtube", save_downloaded),
              files |-> IF save_downloaded THEN save_local_transcript(fs, video_id, yt.text, wout)
                        ELSE fs,
              fetched |-> 1, yt |-> yt]
        ELSE [ret |-> None, meta |-> Meta(video_id, "none", FALSE), files |-> fs,
              fetched |-> 1, yt |-> yt]

\* Mutant: a local hit is returned, but the file is refreshed from the remote
\* service when the fallback is enabled.
get_or_create_transcript_Refreshes(fs, available, ref, use_youtube_fallback, save_downloaded, resp, wout) ==
    LET video_id == extract_video_id(ref)
        local == load_local_transcript(fs, video_id)
        yt == fetch_youtube_transcript(available, resp)
        fresh == use_youtube_fallback /\ Truthy(yt) /\ save_downloaded
    IN  IF Truthy(local)
        THEN [ret |-> local, meta |-> Meta(video_id, "local", FALSE),
              files |-> IF fresh THEN save_local_transcript(fs, video_id, yt.text, wout) ELSE fs,
              fetched |-> 0, yt |-> None]
        ELSE IF use_youtube_fallback /\ Truthy(yt)
        THEN [ret |-> yt,
              meta |-> Meta(video_id, "youtube", save_downloaded),
              files |-> IF save_downloaded THEN save_local_transcript(fs, video_id, yt.text, wout)
                        ELSE fs,
              fetched |-> 1, yt |-> yt]
        ELSE [ret |-> None, meta |-> Meta(video_id, "none", FALSE), files |-> fs,
              fetched |-> IF use_youtube_fallback THEN 1 ELSE 0,
              yt |-> IF use_youtube_fallback THEN yt ELSE None]

\* One call of get_or_create_transcript on transcript directory fs: what it returns
\* (ret, meta), the directory afterwards (files), how many times it called
\* fetch_youtube_transcript (fetched) and what that call returned (yt).
get_or_create_transcript(fs, available, ref, use_youtube_fallback, save_downloaded, resp, wout) ==
    LET video_id == extract_video_id(ref)
        local == load_local_transcript(fs, video_id)
        yt == fetch_youtube_transcript(available, resp)
    IN  IF Truthy(local)
        THEN [ret |-> local, meta |-> Meta(video_id, "local", FALSE), files |-> fs,
              fetched |-> 0, yt |-> None]
        ELSE IF use_youtube_fallback /\ Truthy(yt)
        THEN [ret |-> yt,
              meta |-> Meta(video_id, "youtube", save_downloaded),
              files |-> IF save_downloaded THEN save_local_transcript(fs, video_id, yt.text, wout)
                        ELSE fs,
              fetched |-> 1, yt |-> yt]
        ELSE [ret |-> None, meta |-> Meta(video_id, "none", FALSE), files |-> fs,
              fetched |-> IF use_youtube_fallback THEN 1 ELSE 0,
              yt |-> IF use_youtube_fallback THEN yt ELSE None]

-----------------------------------------------------------------------------
(* json, as far as the index file uses it: an array of objects whose values *)
(* are strings or null.  A Python value of an index entry is Some(str) or   *)
(* None; a JSON text is a str, token by token.                              *)

QUOTE == "\""
BSLASH == "\\"

Keys == <<"collection", "title", "url", "video_id", "transcript_source", "transcript_path">>

\* The escape json.dumps writes for a character that needs one.
Escapes == {<<QUOTE, QUOTE>>, <<BSLASH, BSLASH>>, <<LF, "n">>, <<CR, "r">>, <<"\t", "t">>}
Escaped == {e[1] : e \in Escapes}
EscapeOf(c) == (CHOOSE e \in Escapes : e[1] = c)[2]
UnescapeOf(x) == (CHOOSE e \in Escapes : e[2] = x)[1]

RECURSIVE JsonChars(_)
JsonChars(t) ==
    IF t = <<>> THEN <<>>
    ELSE (IF Head(t) \in Escaped THEN <<BSLASH, EscapeOf(Head(t))>> ELSE <<Head(t)>>)
         \o JsonChars(Tail(t))

JsonString(t) == <<QUOTE>> \o JsonChars(t) \o <<QUOTE>>

JsonValue(pv) == IF pv.some THEN JsonString(pv.text) ELSE <<"null">>

\* One member line of an object: indent, "key": value.
JsonMember(e, k) == <<SP, SP, SP, SP>> \o JsonString(<<k>>) \o <<":", SP>> \o JsonValue(e[k])

RECURSIVE JsonMembers(_, _)
JsonMembers(e, ks) ==
    IF ks = <<>> THEN <<>>
    ELSE JsonMember(e, Head(ks))
         \o (IF Len(ks) > 1 THEN <<",">> ELSE <<>>) \o <<LF>> \o JsonMembers(e, Tail(ks))

JsonObject(e) == <<SP, SP, "{", LF>> \o JsonMembers(e, Keys) \o <<SP, SP, "}">>

RECURSIVE JsonItems(_)
JsonItems(index) ==
    IF index = <<>> THEN <<>>
    ELSE JsonObject(Head(index))
         \o (IF Len(index) > 1 THEN <<",">> ELSE <<>>) \o <<LF>> \o JsonItems(Tail(index))

\* json.dumps(index, indent=2)
JsonDumps(index) ==
    IF index = <<>> THEN <<"[", "]">>
    ELSE <<"[", LF>> \o JsonItems(index) \o <<"]">>

\* The parser.  Each step returns [ok, val, pos]: pos is the next unread token.
Bad == [ok |-> FALSE, val |-> <<>>, pos |-> 0]
Good(v, p) == [ok |-> TRUE, val |-> v, pos |-> p]
At(t, i) == IF i <= Len(t) THEN t[i] ELSE "<eof>"

RECURSIVE SkipWs(_, _)
SkipWs(t, i) == IF i <= Len(t) /\ t[i] \in Whitespace THEN SkipWs(t, i + 1) ELSE i

\* The characters of a string, from the token after its opening quote.
RECURSIVE ParseChars(_, _, _)
ParseChars(t, i, acc) ==
    IF i > Len(t) THEN Bad
    ELSE IF t[i] = QUOTE THEN Good(acc, i + 1)
    ELSE IF t[i] = BSLASH
         THEN IF i + 1 <= Len(t) /\ t[i + 1] \in {e[2] : e \in Escapes}
              THEN ParseChars(t, i + 2, Append(acc, UnescapeOf(t[i + 1])))
              ELSE Bad
    ELSE IF t[i] \in {LF, CR, "\t"} THEN Bad
    ELSE ParseChars(t, i + 1, Append(acc, t[i]))

\* A value: a string or null.
ParseValue(t, i) ==
    IF At(t, i) = "null" THEN Good(None, i + 1)
    ELSE IF At(t, i) = QUOTE
         THEN LET r == ParseChars(t, i + 1, <<>>)
              IN  IF r.ok THEN Good(Some(r.val), r.pos) ELSE Bad
    ELSE Bad

\* The members of an object, from the token after "{" or after a ","; obj is the
\* dict built so far (a later duplicate key replaces an earlier one).
RECURSIVE ParseMembers(_, _, _)
ParseMembers(t, i, obj) ==
    LET k == ParseValue(t, SkipWs(t, i))
        c == SkipWs(t, k.pos)
        v == ParseValue(t, SkipWs(t, c + 1))
        e == SkipWs(t, v.pos)
        key == k.val.text[1]
        next == [x \in (DOMAIN obj) \cup {key} |-> IF x = key THEN v.val ELSE obj[x]]
    IN  IF ~k.ok \/ ~k.val.some \/ Len(k.val.text) # 1 \/ At(t, c) # ":" THEN Bad
        ELSE IF ~v.ok THEN Bad
        ELSE IF At(t, e) = "}" THEN Good(next, e + 1)
        ELSE IF At(t, e) = "," THEN ParseMembers(t, e + 1, next)
        ELSE Bad

\* The items of the array, from the token after "[" or after a ",".
RECURSIVE ParseItems(_, _, _)
ParseItems(t, i, acc) ==
    LET o == SkipWs(t, i)
        m == ParseMembers(t, o + 1, <<>>)
        e == SkipWs(t, m.pos)
    IN  IF At(t, o) # "{" THEN Bad
        ELSE IF ~m.ok THEN Bad
        ELSE IF At(t, e) = "]" THEN Good(Append(acc, m.val), e + 1)
        ELSE IF At(t, e) = "," THEN ParseItems(t, e + 1, Append(acc, m.val))
        ELSE Bad

\* json.loads(text): [ok, val]; ok is FALSE where json.loads raises JSONDecodeError.
JsonLoads(t) ==
    LET o == SkipWs(t, 1)
        first == SkipWs(t, o + 1)
        r == IF At(t, o) # "[" THEN Bad
             ELSE IF At(t, first) = "]" THEN Good(<<>>, first + 1)
             ELSE ParseItems(t, o + 1, <<>>)
    IN  IF r.ok /\ SkipWs(t, r.pos) = Len(t) + 1 THEN [ok |-> TRUE, val |-> r.val]
        ELSE [ok |-> FALSE, val |-> <<>>]

-----------------------------------------------------------------------------
(* Catalogs: curated_map is a dict, iterated in insertion order; a catalog is *)
(* the sequence of its (collection, videos) items, the names distinct.  A    *)
(* video is a dict with "url" and, optionally, "title".                      *)

Video(title, url) == [title |-> title, url |-> url]
Collection(name, videos) == [name |-> name, videos |-> videos]

VA == Video(Some(<<"A">>), BareRef)
VB == Video(Some(<<"B">>), WatchRef)
VC == Video(None, ShortRef)

CatalogPool ==
    { <<>>,
      << Collection(<<"test">>, <<VA>>) >>,
      << Collection(<<"c1">>, <<>>), Collection(<<"c2">>, <<VB, VC>>) >>,
      << Collection(<<"c1">>, <<VC>>), Collection(<<"c2">>, <<VA>>) >>,
      << Collection(<<"c1">>, <<VA, VB>>), Collection(<<"c2">>, <<>>), Collection(<<"c3">>, <<VC>>) >>,
      << Collection(<<"c1">>, <<VB>>), Collection(<<"c2">>, <<VA, VB, VA>>) >> }

RECURSIVE Total(_)
Total(catalog) ==
    IF catalog = <<>> THEN 0 ELSE Len(Head(catalog).videos) + Total(Tail(catalog))

\* The largest catalog a bulk run is started on, in entries.
MaxEntries == 2

Catalogs == { c \in CatalogPool : Total(c) <= MaxEntries }

\* The texts save_local_transcript is called with.
SaveTexts == { <<>>, <<"a">>, <<"a", CR, "b">> }

\* What a transcript file can hold when the program starts.
InitTexts == { <<>>, <<"a", LF, "b">> }
InitFiles == {NoFile, Undecodable} \cup { File(t, TRUE) : t \in InitTexts }

-----------------------------------------------------------------------------
(* State *)

VARIABLES
    files,          \* data/transcripts: video id -> file
    indexFile,      \* data/curated_index.json
    YT_AVAILABLE,   \* whether youtube_transcript_api was importable
    pc,             \* where preload_curated_transcripts stands; "idle" outside a run
    run,            \* the locals of the running preload_curated_transcripts
    last            \* the last call made, with what it returned

vars == <<files, indexFile, YT_AVAILABLE, pc, run, last>>

NoMeta == [video_id |-> <<>>, source |-> "", saved_locally |-> FALSE]

\* A call record; each operation fills in the fields it has.  raised is the
\* exception the call ended with, "" when it returned.
Call(op) ==
    [op |-> op, raised |-> "", ref |-> <<>>, id |-> <<>>, text |-> <<>>,
     use_youtube_fallback |-> FALSE, save_downloaded |-> FALSE,
     ret |-> None, meta |-> NoMeta, fetched |-> 0, yt |-> None,
     curated_map |-> <<>>, index |-> <<>>, sleeps |-> 0]

NoRun ==
    [curated_map |-> <<>>, use_youtube_fallback |-> FALSE, ci |-> 0, vi |-> 0,
     index |-> <<>>, sleeps |-> 0]

Init ==
    /\ files \in [Ids -> InitFiles]
    /\ indexFile = NoFile
    /\ YT_AVAILABLE \in BOOLEAN
    /\ pc = "idle"
    /\ run = NoRun
    /\ last = Call("import")

-----------------------------------------------------------------------------
(* The operations, called one at a time *)

LoadLocal(video_id) ==
    /\ pc = "idle"
    /\ last' = [Call("load_local_transcript") EXCEPT
                    !.id = video_id, !.ret = load_local_transcript(files, video_id)]
    /\ UNCHANGED <<files, indexFile, YT_AVAILABLE, pc, run>>

\* The call returns the path: ret is Some(path) whatever the write did.
SaveLocal(video_id, t, wout) ==
    /\ pc = "idle"
    /\ files' = save_local_transcript(files, video_id, t, wout)
    /\ last' = [Call("save_local_transcript") EXCEPT
                    !.id = video_id, !.text = t, !.ret = Some(TranscriptPath(video_id))]
    /\ UNCHANGED <<indexFile, YT_AVAILABLE, pc, run>>

\* The service answers with any of Responses.
Fetch(video_id) ==
    /\ pc = "idle"
    /\ \E ret \in { fetch_youtube_transcript(YT_AVAILABLE, resp) : resp \in Responses } :
          last' = [Call("fetch_youtube_transcript") EXCEPT
                      !.id = video_id, !.ret = ret, !.fetched = 1]
    /\ UNCHANGED <<files, indexFile, YT_AVAILABLE, pc, run>>

\* The record of one get_or_create_transcript call that returned r.
Resolved(ref, use_youtube_fallback, save_downloaded, r) ==
    [Call("get_or_create_transcript") EXCEPT
        !.ref = ref, !.id = r.meta.video_id,
        !.use_youtube_fallback = use_youtube_fallback, !.save_downloaded = save_downloaded,
        !.ret = r.ret, !.meta = r.meta, !.fetched = r.fetched, !.yt = r.yt]

\* The ways one get_or_create_transcript call can go: the service answers with any
\* of Responses, a write ends in any of WriteOutcomes.
Resolutions(fs, ref, use_youtube_fallback, save_downloaded) ==
    { get_or_create_transcript(fs, YT_AVAILABLE, ref, use_youtube_fallback,
                               save_downloaded, resp, wout) :
        resp \in Responses, wout \in WriteOutcomes }

Resolve(ref, use_youtube_fallback, save_downloaded) ==
    /\ pc = "idle"
    /\ \E r \in Resolutions(files, ref, use_youtube_fallback, save_downloaded) :
          /\ files' = r.files
          /\ last' = Resolved(ref, use_youtube_fallback, save_downloaded, r)
    /\ UNCHANGED <<indexFile, YT_AVAILABLE, pc, run>>

-----------------------------------------------------------------------------
(* preload_curated_transcripts, step by step *)

\* The first entry at or after (ci, vi) in the two nested for loops; ci is
\* Len(catalog) + 1 when the loops are exhausted.
RECURSIVE Seek(_, _, _)
Seek(catalog, ci, vi) ==
    IF ci > Len(catalog) THEN [ci |-> ci, vi |-> 1]
    ELSE IF vi <= Len(catalog[ci].videos) THEN [ci |-> ci, vi |-> vi]
    ELSE Seek(catalog, ci + 1, 1)

AfterSeek(catalog, pos) == IF pos.ci > Len(catalog) THEN "write" ELSE "item"

\* The call: index = [] and the loops are entered.
PreloadStart(curated_map, use_youtube_fallback) ==
    LET pos == Seek(curated_map, 1, 1)
    IN  /\ pc = "idle"
        /\ pc' = AfterSeek(curated_map, pos)
        /\ run' = [curated_map |-> curated_map, use_youtube_fallback |-> use_youtube_fallback,
                   ci |-> pos.ci, vi |-> pos.vi, index |-> <<>>, sleeps |-> 0]
        /\ last' = Call("enter preload_curated_transcripts")
        /\ UNCHANGED <<files, indexFile, YT_AVAILABLE>>

\* Mutant: transcript_path is taken from what the Resolver reported.
IndexEntry_PathFromMeta(collection, v, meta, fs) ==
    [collection |-> Some(collection),
     title |-> Some(IF v.title.some THEN v.title.text ELSE <<>>),
     url |-> Some(v.url),
     video_id |-> Some(meta.video_id),
     transcript_source |-> Some(<<meta.source>>),
     transcript_path |-> IF meta.source # "none" THEN Some(TranscriptPath(meta.video_id))
                         ELSE None]

\* The index entry of video v of collection, resolved with meta, on directory fs.
IndexEntry(collection, v, meta, fs) ==
    [collection |-> Some(collection),
     title |-> Some(IF v.title.some THEN v.title.text ELSE <<>>),
     url |-> Some(v.url),
     video_id |-> Some(meta.video_id),
     transcript_source |-> Some(<<meta.source>>),
     transcript_path |-> IF fs[meta.video_id].exists THEN Some(TranscriptPath(meta.video_id))
                         ELSE None]

\* Mutant: an entry whose resolution yields nothing is left out of the index.
PreloadItem_SkipsMissing ==
    LET c == run.curated_map[run.ci]
        v == c.videos[run.vi]
    IN  /\ pc = "item"
        /\ \E r \in Resolutions(files, v.url, run.use_youtube_fallback, TRUE) :
              /\ files' = r.files
              /\ run' = [run EXCEPT !.index =
                            IF r.ret = None THEN @
                            ELSE Append(@, IndexEntry(c.name, v, r.meta, r.files))]
              /\ last' = Resolved(v.url, run.use_youtube_fallback, TRUE, r)
        /\ pc' = "sleep"
        /\ UNCHANGED <<indexFile, YT_AVAILABLE>>

\* The loop body up to index.append(entry).
PreloadItem ==
    LET c == run.curated_map[run.ci]
        v == c.videos[run.vi]
    IN  /\ pc = "item"
        /\ \E r \in Resolutions(files, v.url, run.use_youtube_fallback, TRUE) :
              /\ files' = r.files
              /\ run' = [run EXCEPT !.index = Append(@, IndexEntry(c.name, v, r.meta, r.files))]
              /\ last' = Resolved(v.url, run.use_youtube_fallback, TRUE, r)
        /\ pc' = "sleep"
        /\ UNCHANGED <<indexFile, YT_AVAILABLE>>

\* Mutant: the delay is skipped when the entry did not reach the remote service.
PreloadSleep_OnlyAfterFetch ==
    LET pos == Seek(run.curated_map, run.ci, run.vi + 1)
    IN  /\ pc = "sleep"
        /\ run' = [run EXCEPT !.sleeps = IF last.fetched > 0 THEN @ + 1 ELSE @,
                              !.ci = pos.ci, !.vi = pos.vi]
        /\ pc' = AfterSeek(run.curated_map, pos)
        /\ last' = Call("sleep")
        /\ UNCHANGED <<files, indexFile, YT_AVAILABLE>>

\* sleep(delay_seconds), then on to the next entry or out of the loops.
PreloadSleep ==
    LET pos == Seek(run.curated_map, run.ci, run.vi + 1)
    IN  /\ pc = "sleep"
        /\ run' = [run EXCEPT !.sleeps = @ + 1, !.ci = pos.ci, !.vi = pos.vi]
        /\ pc' = AfterSeek(run.curated_map, pos)
        /\ last' = Call("sleep")
        /\ UNCHANGED <<files, indexFile, YT_AVAILABLE>>

\* Mutant: the run's entries are added to those the index file already holds.
PreloadWrite_Appends(wout) ==
    LET old == JsonLoads(DecodeText(indexFile.text))
        all == (IF indexFile.exists /\ old.ok THEN old.val ELSE <<>>) \o run.index
    IN  /\ pc = "write"
        /\ indexFile' = write_text(indexFile, JsonDumps(all), wout)
        /\ last' = [Call("preload_curated_transcripts") EXCEPT
                        !.raised = IF wout = "ok" THEN "" ELSE "OSError",
                        !.use_youtube_fallback = run.use_youtube_fallback,
                        !.curated_map = run.curated_map,
                        !.index = IF wout = "ok" THEN run.index ELSE <<>>,
                        !.sleeps = run.sleeps]
        /\ pc' = "idle"
        /\ run' = NoRun
        /\ UNCHANGED <<files, YT_AVAILABLE>>

\* index_path.write_text(json.dumps(index, indent=2)) and the return; a failed
\* write is not caught and ends the call with the exception.
PreloadWrite(wout) ==
    /\ pc = "write"
    /\ indexFile' = write_text(indexFile, JsonDumps(run.index), wout)
    /\ last' = [Call("preload_curated_transcripts") EXCEPT
                    !.raised = IF wout = "ok" THEN "" ELSE "OSError",
                    !.use_youtube_fallback = run.use_youtube_fallback,
                    !.curated_map = run.curated_map,
                    !.index = IF wout = "ok" THEN run.index ELSE <<>>,
                    !.sleeps = run.sleeps]
    /\ pc' = "idle"
    /\ run' = NoRun
    /\ UNCHANGED <<files, YT_AVAILABLE>>

\* load_curated_index(); rfault says whether reading the file fails.  Neither a
\* read error nor a JSONDecodeError is caught.
LoadIndex(rfault) ==
    LET doc == JsonLoads(DecodeText(indexFile.text))
        exc == IF ~indexFile.exists THEN ""
               ELSE IF rfault THEN "OSError"
               ELSE IF ~doc.ok THEN "JSONDecodeError"
               ELSE ""
    IN  /\ pc = "idle"
        /\ last' = [Call("load_curated_index") EXCEPT
                        !.raised = exc,
                        !.index = IF indexFile.exists /\ exc = "" THEN doc.val ELSE <<>>]
        /\ UNCHANGED <<files, indexFile, YT_AVAILABLE, pc, run>>

\* The Local Store, the Remote Fetcher and the Resolver, called in any order.
Next ==
    \/ \E id \in Ids : LoadLocal(id)
    \/ \E id \in Ids, t \in SaveTexts, wout \in WriteOutcomes : SaveLocal(id, t, wout)
    \/ \E id \in Ids : Fetch(id)
    \/ \E ref \in Refs, fb \in BOOLEAN, sv \in BOOLEAN : Resolve(ref, fb, sv)

Spec == Init /\ [][Next]_vars

\* The Bulk Preloader and the Index Reader, called in any order.
NextBulk ==
    \/ \E c \in Catalogs, fb \in BOOLEAN : PreloadStart(c, fb)
    \/ PreloadItem
    \/ PreloadSleep
    \/ \E wout \in WriteOutcomes : PreloadWrite(wout)
    \/ \E rfault \in BOOLEAN : LoadIndex(rfault)

SpecBulk == Init /\ [][NextBulk]_vars

\* The Resolver and the Bulk Preloader, called in any order.
NextCache ==
    \/ \E ref \in Refs, fb \in BOOLEAN, sv \in BOOLEAN : Resolve(ref, fb, sv)
    \/ \E c \in Catalogs, fb \in BOOLEAN : PreloadStart(c, fb)
    \/ PreloadItem
    \/ PreloadSleep
    \/ \E wout \in WriteOutcomes : PreloadWrite(wout)

SpecCache == Init /\ [][NextCache]_vars

-----------------------------------------------------------------------------
(* The claims *)

IsResolve(l) == l.op = "get_or_create_transcript"
IsPreloadReturn(l) == l.op = "preload_curated_transcripts" /\ l.raised = ""

\* The file holds readable non-empty text.
Populated(f) == f.exists /\ f.canRead /\ f.text # <<>>

\* C1: a get_or_create_transcript call (any flags) on an id whose transcript file
\* exists, is readable and is not empty returns the text read from that file with
\* source = local and saved_locally = false, and never calls fetch_youtube_transcript.
C1_LocalHitSkipsRemote ==
    [][ (IsResolve(last') /\ Populated(files[last'.id]))
        => /\ last'.ret = Some(DecodeText(files[last'.id].text))
           /\ last'.meta = Meta(last'.id, "local", FALSE)
           /\ last'.fetched = 0 ]_vars

\* A call with the fallback enabled and the remote integration available was served
\* from the local file.
C1_Witness ==
    /\ IsResolve(last) /\ last.use_youtube_fallback /\ YT_AVAILABLE
    /\ last.meta.source = "local" /\ last.fetched = 0
    /\ last.ret = Some(<<"a", LF, "b">>)

\* C2: a get_or_create_transcript call with use_youtube_fallback = false on an id
\* whose local load yields nothing (file absent, unreadable or empty) returns
\* (None, meta{source = none, saved_locally = false}), never calls
\* fetch_youtube_transcript and leaves the transcript directory as it was.
C2_NoFallbackNoResult ==
    [][ (IsResolve(last') /\ ~last'.use_youtube_fallback
            /\ ~Truthy(load_local_transcript(files, last'.id)))
        => /\ last'.ret = None
           /\ last'.meta = Meta(last'.id, "none", FALSE)
           /\ last'.fetched = 0
           /\ files' = files ]_vars

\* With the remote integration available, a call without fallback on an id whose
\* file exists but yields nothing returned nothing.
C2_Witness ==
    /\ IsResolve(last) /\ ~last.use_youtube_fallback /\ YT_AVAILABLE
    /\ last.ret = None /\ last.meta.source = "none"
    /\ files[last.id].exists

\* C3 (as claimed): when a get_or_create_transcript call with the fallback enabled
\* finds nothing locally and fetch_youtube_transcript returns text T, the call
\* returns T with source = youtube; and, save_downloaded being set, saved_locally
\* is true and load_local_transcript for the same id then returns exactly T.
C3_RemoteResultIsCached ==
    (IsResolve(last) /\ last.fetched = 1 /\ Truthy(last.yt))
    => /\ last.ret = last.yt
       /\ last.meta.source = "youtube"
       /\ last.save_downloaded
            => /\ last.meta.saved_locally
               /\ load_local_transcript(files, last.id) = last.yt

\* The entries of a catalog in collection-then-entry order.
RECURSIVE Flatten(_)
Flatten(catalog) ==
    IF catalog = <<>> THEN <<>>
    ELSE [k \in 1..Len(Head(catalog).videos) |->
             [collection |-> Head(catalog).name, video |-> Head(catalog).videos[k]]]
         \o Flatten(Tail(catalog))

\* C4: a completed preload_curated_transcripts run over a catalog of N entries
\* returns, and has written to the index file, exactly N records, the k-th carrying
\* the collection, title (the empty string for an entry without one) and url of the
\* k-th entry in collection-then-entry order.
C4_OneEntryPerCatalogEntry ==
    (pc = "idle" /\ IsPreloadReturn(last))
    => LET flat == Flatten(last.curated_map)
       IN  /\ Len(last.index) = Len(flat)
           /\ \A k \in 1..Len(flat) :
                 /\ last.index[k].collection = Some(flat[k].collection)
                 /\ last.index[k].title =
                        IF flat[k].video.title.some THEN flat[k].video.title
                        ELSE Some(<<>>)
                 /\ last.index[k].url = Some(flat[k].video.url)
           /\ indexFile.exists
           /\ JsonLoads(DecodeText(indexFile.text)) = [ok |-> TRUE, val |-> last.index]

\* A completed run over two collections whose entries name the same video, one of
\* them resolved to nothing.
C4_Witness ==
    /\ pc = "idle" /\ IsPreloadReturn(last)
    /\ Len(last.curated_map) = 2 /\ Len(last.index) = 2
    /\ last.index[1].video_id = last.index[2].video_id
    /\ last.index[1].transcript_source = Some(<<"none">>)

\* C5 (as claimed): no public operation ends in an error raised to its caller.
C5_NothingRaises == last.raised = ""

\* C6 (as claimed): after save_local_transcript(T, X), load_local_transcript(T)
\* returns exactly X, whatever the file held before.
C6_SaveThenLoad ==
    last.op = "save_local_transcript"
    => load_local_transcript(files, last.id) = Some(last.text)

\* C7: the index file changes only in the final write of a bulk run; when the run
\* returns, the file holds exactly the serialisation of the returned sequence, and a
\* load_curated_index that follows the run returns that sequence (unless reading the
\* file fails).
C7_IndexReplacedAtEnd ==
    [][ /\ indexFile' # indexFile => pc = "write"
        /\ IsPreloadReturn(last)
             => indexFile = File(EncodeText(JsonDumps(last.index)), TRUE)
        /\ (IsPreloadReturn(last) /\ last'.op = "load_curated_index")
             => /\ last'.raised \in {"", "OSError"}
                /\ last'.raised = "" => last'.index = last.index ]_vars

\* load_curated_index returned a one-entry index.
C7_Witness ==
    /\ last.op = "load_curated_index" /\ last.raised = ""
    /\ Len(last.index) = 1
    /\ indexFile.text = EncodeText(JsonDumps(last.index))

\* The one-entry catalog of the scenario and the index entry expected for it.
ScenarioCatalog == << Collection(<<"test">>, <<VA>>) >>
ScenarioEntry ==
    [collection |-> Some(<<"test">>), title |-> Some(<<"A">>), url |-> Some(BareRef),
     video_id |-> Some(BareRef), transcript_source |-> Some(<<"none">>),
     transcript_path |-> None]

\* C8: the transcript_path of the entry just appended is non-null exactly when the
\* transcript file of its video_id exists after the Resolver call, whatever the
\* Resolver's meta says; in the scenario of the specification the entry is
\* {test, A, abc123, abc123, none, null}.
C8_PathFollowsExistence ==
    pc = "sleep"
    => LET e == run.index[Len(run.index)]
       IN  /\ e.video_id = Some(last.id)
           /\ e.transcript_source = Some(<<last.meta.source>>)
           /\ e.transcript_path.some <=> files[last.id].exists
           /\ e.transcript_path.some => e.transcript_path = Some(TranscriptPath(last.id))
           /\ (run.curated_map = ScenarioCatalog /\ ~run.use_youtube_fallback
                  /\ ~files[BareRef].exists)
                => run.index = <<ScenarioEntry>>

\* The Resolver reported saved_locally = true, the file does not exist, and the
\* entry's transcript_path is null.
C8_Witness ==
    /\ pc = "sleep"
    /\ last.meta.source = "youtube" /\ last.meta.saved_locally
    /\ run.index[Len(run.index)].transcript_path = None

\* C9: a bulk run sleeps once after each entry is appended and before the next
\* entry is resolved or the index file is written: N sleeps for N entries, whatever
\* the source of each entry.
C9_OneSleepPerEntry ==
    /\ pc = "item" => run.sleeps = Len(run.index)
    /\ pc = "sleep" => run.sleeps = Len(run.index) - 1
    /\ pc = "write" => /\ run.sleeps = Len(run.index)
                       /\ run.sleeps = Total(run.curated_map)
    /\ (pc = "idle" /\ last.op = "preload_curated_transcripts")
         => last.sleeps = Total(last.curated_map)

\* A run about to write the index after two sleeps, its first entry served from the
\* local cache and its second one not found.
C9_Witness ==
    /\ pc = "write" /\ run.sleeps = 2
    /\ run.index[1].transcript_source = Some(<<"local">>)
    /\ run.index[2].transcript_source = Some(<<"none">>)

\* C10: under get_or_create_transcript and preload_curated_transcripts calls, a
\* transcript file that holds readable non-empty text is never changed, and a
\* resolution of its id returns that text with source = local; a transcript file
\* changes only in a Resolver call for its id whose local load yielded nothing and
\* whose remote fetch returned non-empty text, with save_downloaded set.
C10_CacheStable ==
    [][ \A id \in Ids :
          /\ Populated(files[id])
               => /\ files'[id] = files[id]
                  /\ (IsResolve(last') /\ last'.id = id)
                       => /\ last'.ret = Some(DecodeText(files[id].text))
                          /\ last'.meta.source = "local"
          /\ files'[id] # files[id]
               => /\ IsResolve(last') /\ last'.id = id
                  /\ ~Truthy(load_local_transcript(files, id))
                  /\ last'.save_downloaded
                  /\ Truthy(last'.yt) /\ last'.meta.source = "youtube" ]_vars

\* Inside a bulk run, an entry was served from a file that an earlier Resolver call
\* had saved from the remote service.
C10_Witness ==
    /\ pc = "sleep"
    /\ IsResolve(last) /\ last.meta.source = "local"
    /\ files[last.id].text = <<"a", CR, "b">>

====
